---- MODULE Spec2Model ----
(***************************************************************************)
(* Model of type.py: floating text overlays (FloatingText), the tool bar   *)
(* that owns them (ControlBar) and the application-wide key router         *)
(* (MyApplication.notify).  Every GUI event is one action; a text is a     *)
(* sequence of one-character strings.                                      *)
(***************************************************************************)
EXTENDS Integers, Sequences, FiniteSets, TLC

VARIABLES
    widgets,             \* live FloatingText objects: id -> fields
    text_widgets,        \* ControlBar.text_widgets, a list of ids
    active_text_widget,  \* ControlBar.active_text_widget, an id or None
    slider_size,         \* value shown by ControlBar.slider_size
    btn_shadow,          \* checked state of ControlBar.btn_shadow
    down_btn,            \* push button held down by the space bar
    dialog,              \* TRUE while on_color_click waits in QColorDialog.getColor
    crashed,             \* an exception left a slot
    next_id,             \* number of FloatingText objects constructed so far
    events,              \* number of events handled so far
    last,                \* the event handled last
    selection,           \* how the active reference was last set or cleared
    buffer               \* reference text buffer of each overlay: id -> text, edited

vars == <<widgets, text_widgets, active_text_widget, slider_size, btn_shadow,
          down_btn, dialog, crashed, next_id, events, last, selection, buffer>>

----------------------------------------------------------------------------
(* Bounds *)

\* Event sequences of up to MaxEvents events are explored; the number of
\* overlays, the length of a text and the distance moved are bounded by it.
MaxEvents == 4

----------------------------------------------------------------------------
(* Program constants *)

None == 0
NoButton == "none"

Placeholder == <<"T", "y", "p", "e", ".", ".", ".">>
DefaultFontSize == 42
SliderMin == 10
SliderMax == 200
SliderInit == 42
PlaceholderAlpha == 150
OpaqueAlpha == 255
NudgeStep == 2
White == "#FFFFFF"
InvalidColor == "invalid"
StartPos == <<120, 179>>

Buttons == {"btn_add", "btn_color", "btn_shadow", "btn_del"}

----------------------------------------------------------------------------
(* Inputs *)

\* Values the user asks of the slider (dragging past either end included).
SliderRequests == {5, 100, 250}
\* Colours the colour dialog can hand back.
DialogColors == {"#FF0000", InvalidColor}
MouseButtons == {"Left", "Right"}
\* event.pos() of a press and event.globalPosition() of a move.
PressPoints == {<<5, 5>>}
GlobalPoints == {<<50, 50>>}

Key(k, t, s, c) == [key |-> k, text |-> t, shift |-> s, ctrl |-> c]

KeyEvents ==
    {Key(k, "", FALSE, FALSE) : k \in {"Up", "Down", "Left", "Right", "Escape", "Backspace", "F1"}}
    \cup {Key(k, "\r", s, FALSE) : k \in {"Return", "Enter"}, s \in BOOLEAN}
    \cup {Key("A", "A", FALSE, c) : c \in BOOLEAN}
    \cup {Key("Space", " ", FALSE, FALSE), Key("Tab", "\t", FALSE, FALSE)}

NoKey == Key("", "", FALSE, FALSE)

\* str.isprintable() on the texts above.
IsPrintable(t) == t \notin {"\t", "\r"}

----------------------------------------------------------------------------
(* FloatingText *)

RECURSIVE Replace(_, _, _)
\* str.replace(old, new) on a text of single characters
Replace(s, old, new) ==
    IF s = <<>> THEN <<>>
    ELSE <<(IF Head(s) = old THEN new ELSE Head(s))>> \o Replace(Tail(s), old, new)

\* The label that update_appearance renders for the fields r.
Render(r) ==
    LET safe_text == Replace(r.text_content, "\n", "<br>")
        placeholder == safe_text = <<>> \/ r.text_content = Placeholder
        shown == IF placeholder THEN Placeholder ELSE safe_text
    IN  [display_text |-> IF r.is_selected /\ r.show_cursor THEN shown \o <<"|">> ELSE shown,
         color |-> r._color,
         alpha |-> IF placeholder THEN PlaceholderAlpha ELSE OpaqueAlpha,
         shadow |-> r._shadow_enabled]

update_appearance(r) == [r EXCEPT !.label = Render(r)]

\* FloatingText.__init__
FloatingText(start_pos) ==
    update_appearance(
        [text_content |-> Placeholder,
         _font_size |-> DefaultFontSize,
         _color |-> White,
         _shadow_enabled |-> TRUE,
         is_selected |-> TRUE,
         pos |-> start_pos,
         _dragging |-> FALSE,
         _drag_offset |-> <<0, 0>>,
         show_cursor |-> TRUE,
         label |-> [display_text |-> <<>>, color |-> White, alpha |-> OpaqueAlpha, shadow |-> FALSE]])

\* Mutant: the timer flips the flag of an unselected overlay too
blink_cursor_always(r) == update_appearance([r EXCEPT !.show_cursor = ~r.show_cursor])

\* FloatingText._blink_cursor
blink_cursor(r) ==
    IF r.is_selected THEN update_appearance([r EXCEPT !.show_cursor = ~r.show_cursor])
    ELSE r

Add(p, q) == <<p[1] + q[1], p[2] + q[2]>>
Sub(p, q) == <<p[1] - q[1], p[2] - q[2]>>

----------------------------------------------------------------------------
(* ControlBar *)

Range(s) == {s[i] : i \in DOMAIN s}

\* Mutant: list.pop() in place of list.remove(x)
Remove_last(s, x) == SubSeq(s, 1, Len(s) - 1)

\* list.remove(x): drop the first element equal to x
RECURSIVE Remove(_, _)
Remove(s, x) ==
    IF s = <<>> THEN <<>>
    ELSE IF Head(s) = x THEN Tail(s)
    ELSE <<Head(s)>> \o Remove(Tail(s), x)

\* Mutant: a slider without its range
SliderValue_unclamped(v) == v

\* QSlider.setValue under setRange(10, 200)
SliderValue(v) == IF v < SliderMin THEN SliderMin ELSE IF v > SliderMax THEN SliderMax ELSE v

\* Mutant: the new size is applied to every overlay
on_size_change_all(ws, active, val) ==
    IF active # None
    THEN [i \in DOMAIN ws |-> update_appearance([ws[i] EXCEPT !._font_size = val])]
    ELSE ws

\* on_size_change(val) applied to the overlays ws with `active` the active one
on_size_change(ws, active, val) ==
    IF active # None
    THEN [ws EXCEPT ![active] = update_appearance([@ EXCEPT !._font_size = val])]
    ELSE ws

\* on_shadow_toggle with the toggle showing `checked`
on_shadow_toggle(ws, active, checked) ==
    IF active # None
    THEN [ws EXCEPT ![active] = update_appearance([@ EXCEPT !._shadow_enabled = checked])]
    ELSE ws

\* Mutant: the loop that clears the other overlays' selection is missing
Select_no_clear(ws, list, widget) ==
    IF widget # None
    THEN [ws EXCEPT ![widget] = update_appearance([@ EXCEPT !.is_selected = TRUE])]
    ELSE ws

\* The loop and the `if widget:` block of set_active_widget, on the overlays.
Select(ws, list, widget) ==
    LET cleared == [i \in DOMAIN ws |->
                      IF i \in Range(list)
                      THEN update_appearance([ws[i] EXCEPT !.is_selected = FALSE])
                      ELSE ws[i]]
    IN  IF widget # None
        THEN [cleared EXCEPT ![widget] = update_appearance([@ EXCEPT !.is_selected = TRUE])]
        ELSE cleared

\* Mutant: the slider and the toggle keep what they showed
set_active_widget_no_sync(ws, list, widget) ==
    [widgets |-> Select(ws, list, widget),
     active_text_widget |-> widget,
     slider_size |-> slider_size,
     btn_shadow |-> btn_shadow]

\* Mutant: the slider is set before the active reference moves and without
\* blocking its signals, so valueChanged resizes the overlay still active
set_active_widget_unblocked(ws, list, widget) ==
    LET v == IF widget # None THEN SliderValue(ws[widget]._font_size) ELSE slider_size
        resized == IF v # slider_size /\ active_text_widget \in DOMAIN ws
                   THEN [ws EXCEPT ![active_text_widget] =
                            update_appearance([@ EXCEPT !._font_size = v])]
                   ELSE ws
    IN  [widgets |-> Select(resized, list, widget),
         active_text_widget |-> widget,
         slider_size |-> v,
         btn_shadow |-> IF widget # None THEN ws[widget]._shadow_enabled ELSE btn_shadow]

\* set_active_widget(widget), with ws and list the overlays and the list as
\* the caller left them: the bar's state afterwards.  setValue and setChecked
\* run with signals blocked, so neither change handler runs.
set_active_widget(ws, list, widget) ==
    [widgets |-> Select(ws, list, widget),
     active_text_widget |-> widget,
     slider_size |-> IF widget # None THEN SliderValue(ws[widget]._font_size) ELSE slider_size,
     btn_shadow |-> IF widget # None THEN ws[widget]._shadow_enabled ELSE btn_shadow]

\* The bar's state as it is
Bar ==
    [widgets |-> widgets, active_text_widget |-> active_text_widget,
     slider_size |-> slider_size, btn_shadow |-> btn_shadow]

Becomes(st) ==
    /\ widgets' = st.widgets
    /\ active_text_widget' = st.active_text_widget
    /\ slider_size' = st.slider_size
    /\ btn_shadow' = st.btn_shadow

\* Mutant: the new overlay is put at the front of the list
create_text_widget_prepend ==
    LET new_widget == next_id + 1
        ws == [i \in DOMAIN widgets \cup {new_widget} |->
                 IF i = new_widget THEN FloatingText(StartPos) ELSE widgets[i]]
        list == <<new_widget>> \o text_widgets
    IN  /\ next_id' = new_widget
        /\ text_widgets' = list
        /\ Becomes(set_active_widget(ws, list, new_widget))
        /\ UNCHANGED <<dialog, crashed>>

\* create_text_widget
create_text_widget ==
    LET new_widget == next_id + 1
        ws == [i \in DOMAIN widgets \cup {new_widget} |->
                 IF i = new_widget THEN FloatingText(StartPos) ELSE widgets[i]]
        list == Append(text_widgets, new_widget)
    IN  /\ next_id' = new_widget
        /\ text_widgets' = list
        /\ Becomes(set_active_widget(ws, list, new_widget))
        /\ UNCHANGED <<dialog, crashed>>

\* Mutant: the last remaining overlay becomes the active reference
delete_current_reselect ==
    /\ IF active_text_widget # None
       THEN LET rest == Remove(text_widgets, active_text_widget)
            IN  /\ text_widgets' = rest
                /\ widgets' = [i \in DOMAIN widgets \ {active_text_widget} |-> widgets[i]]
                /\ active_text_widget' = IF rest = <<>> THEN None ELSE rest[Len(rest)]
       ELSE UNCHANGED <<text_widgets, widgets, active_text_widget>>
    /\ UNCHANGED <<slider_size, btn_shadow, dialog, crashed, next_id>>

\* delete_current
delete_current ==
    /\ IF active_text_widget # None
       THEN /\ text_widgets' = Remove(text_widgets, active_text_widget)
            /\ widgets' = [i \in DOMAIN widgets \ {active_text_widget} |-> widgets[i]]
            /\ active_text_widget' = None
       ELSE UNCHANGED <<text_widgets, widgets, active_text_widget>>
    /\ UNCHANGED <<slider_size, btn_shadow, dialog, crashed, next_id>>

\* on_color_click up to the call of QColorDialog.getColor, which blocks
on_color_click ==
    /\ dialog' = (active_text_widget # None)
    /\ UNCHANGED <<widgets, text_widgets, active_text_widget, slider_size, btn_shadow,
                   crashed, next_id>>

\* Mutant: the returned colour is applied without asking isValid
color_chosen_unchecked(col) ==
    /\ dialog' = FALSE
    /\ IF active_text_widget # None
       THEN /\ widgets' = [widgets EXCEPT ![active_text_widget] =
                              update_appearance([@ EXCEPT !._color = col])]
            /\ UNCHANGED crashed
       ELSE /\ crashed' = TRUE
            /\ UNCHANGED widgets
    /\ UNCHANGED <<text_widgets, active_text_widget, slider_size, btn_shadow, next_id>>

\* on_color_click from the return of QColorDialog.getColor with col
color_chosen(col) ==
    /\ dialog' = FALSE
    /\ IF col # InvalidColor
       THEN IF active_text_widget # None
            THEN /\ widgets' = [widgets EXCEPT ![active_text_widget] =
                                   update_appearance([@ EXCEPT !._color = col])]
                 /\ UNCHANGED crashed
            ELSE \* None has no attribute _color
                 /\ crashed' = TRUE
                 /\ UNCHANGED widgets
       ELSE UNCHANGED <<widgets, crashed>>
    /\ UNCHANGED <<text_widgets, active_text_widget, slider_size, btn_shadow, next_id>>

\* btn_shadow is checkable: a click flips it, then runs on_shadow_toggle
shadow_clicked ==
    /\ btn_shadow' = ~btn_shadow
    /\ widgets' = on_shadow_toggle(widgets, active_text_widget, ~btn_shadow)
    /\ UNCHANGED <<text_widgets, active_text_widget, slider_size, dialog, crashed, next_id>>

\* The slot connected to the clicked signal of button b
clicked(b) ==
    CASE b = "btn_add" -> create_text_widget
      [] b = "btn_color" -> on_color_click
      [] b = "btn_shadow" -> shadow_clicked
      [] b = "btn_del" -> delete_current

----------------------------------------------------------------------------
(* MyApplication.notify: the branches of the key router *)

\* Mutant: the y axis is taken to grow upwards
key_arrow_y_up(r, key) ==
    [r EXCEPT !.pos = Add(@, CASE key = "Up" -> <<0, NudgeStep>>
                               [] key = "Down" -> <<0, -NudgeStep>>
                               [] key = "Left" -> <<-NudgeStep, 0>>
                               [] key = "Right" -> <<NudgeStep, 0>>)]

\* txt_widget.move(txt_widget.pos() + QPoint(dx, dy))
key_arrow(r, key) ==
    [r EXCEPT !.pos = Add(@, CASE key = "Up" -> <<0, -NudgeStep>>
                               [] key = "Down" -> <<0, NudgeStep>>
                               [] key = "Left" -> <<-NudgeStep, 0>>
                               [] key = "Right" -> <<NudgeStep, 0>>)]

\* Mutant: Backspace treats the placeholder as any other text
key_backspace_plain(r) ==
    update_appearance(
        [r EXCEPT !.text_content = SubSeq(r.text_content, 1, Len(r.text_content) - 1)])

\* the Backspace branch
key_backspace(r) ==
    LET current_str == r.text_content
    IN  update_appearance(
            [r EXCEPT !.text_content =
                IF current_str = Placeholder THEN <<>>
                ELSE SubSeq(current_str, 1, Len(current_str) - 1)])

\* Mutant: the line break replaces the placeholder, as typed text does
key_newline_clearing(r) ==
    update_appearance(
        [r EXCEPT !.text_content =
            (IF r.text_content = Placeholder THEN <<>> ELSE r.text_content) \o <<"\n">>])

\* the Shift+Return branch
key_newline(r) == update_appearance([r EXCEPT !.text_content = @ \o <<"\n">>])

\* Mutant: typed text is appended to the placeholder
key_text_keeps_placeholder(r, ev) ==
    IF ~ev.ctrl
    THEN update_appearance([r EXCEPT !.text_content = r.text_content \o <<ev.text>>])
    ELSE r

\* the printable-text branch
key_text(r, ev) ==
    LET current_str == IF r.text_content = Placeholder THEN <<>> ELSE r.text_content
    IN  IF ~ev.ctrl
        THEN update_appearance([r EXCEPT !.text_content = current_str \o <<ev.text>>])
        ELSE r

\* Mutant: Return and Enter insert a line break whether or not Shift is held
key_press_always_newline(txt_widget, ev) ==
    LET r == widgets[txt_widget]
        on(new) == [Bar EXCEPT !.widgets = [widgets EXCEPT ![txt_widget] = new]]
    IN  CASE ev.key \in {"Up", "Down", "Left", "Right"} -> on(key_arrow(r, ev.key))
          [] ev.key = "Escape" -> set_active_widget(widgets, text_widgets, None)
          [] ev.key = "Backspace" -> on(key_backspace(r))
          [] ev.key \in {"Return", "Enter"} ->
                on(key_newline(r))
          [] OTHER ->
                IF ev.text # "" /\ IsPrintable(ev.text) THEN on(key_text(r, ev))
                ELSE Bar

\* The if/elif chain of notify for a key press while txt_widget is active:
\* the bar's state afterwards.
key_press(txt_widget, ev) ==
    LET r == widgets[txt_widget]
        on(new) == [Bar EXCEPT !.widgets = [widgets EXCEPT ![txt_widget] = new]]
    IN  CASE ev.key \in {"Up", "Down", "Left", "Right"} -> on(key_arrow(r, ev.key))
          [] ev.key = "Escape" -> set_active_widget(widgets, text_widgets, None)
          [] ev.key = "Backspace" -> on(key_backspace(r))
          [] ev.key \in {"Return", "Enter"} ->
                IF ev.shift THEN on(key_newline(r))
                ELSE set_active_widget(widgets, text_widgets, None)
          [] OTHER ->
                IF ev.text # "" /\ IsPrintable(ev.text) THEN on(key_text(r, ev))
                ELSE Bar

\* QPushButton.keyPressEvent, reached through super().notify: the space bar
\* presses the button down, any other key leaves it alone.
button_down(receiver, ev) ==
    IF receiver \in Buttons /\ ev.key = "Space" THEN receiver ELSE down_btn

----------------------------------------------------------------------------
(* Events *)

CanHandle == ~crashed /\ events < MaxEvents

\* Escape and plain Return/Enter end the editing
Deselects(ev) == ev.key = "Escape" \/ (ev.key \in {"Return", "Enter"} /\ ~ev.shift)

\* The keys that edit a text
IsEdit(ev) ==
    \/ ev.key = "Backspace"
    \/ ev.key \in {"Return", "Enter"} /\ ev.shift
    \/ /\ ev.key \notin {"Up", "Down", "Left", "Right", "Escape", "Return", "Enter"}
       /\ ev.text # "" /\ IsPrintable(ev.text) /\ ~ev.ctrl

\* The edit of key event ev on a plain text buffer: drop the last character
\* if there is one, append a line break, append the character.
RefEdit(text, ev) ==
    CASE ev.key = "Backspace" -> SubSeq(text, 1, Len(text) - 1)
      [] ev.key \in {"Return", "Enter"} -> text \o <<"\n">>
      [] OTHER -> text \o <<ev.text>>

\* Bookkeeping of an event: kind, the overlay w it went to, the key event ev,
\* its argument arg (a button, a mouse button, a colour, a slider value) and
\* whether notify passed it on to normal dispatch.  It also keeps the history
\* of the selection and each overlay's reference text buffer.
Event(kind, w, ev, arg, passed) ==
    /\ events' = events + 1
    /\ last' = [kind |-> kind, w |-> w, ev |-> ev, arg |-> arg, passed |-> passed]
    /\ selection' =
          CASE kind \in {"click", "key_release"} /\ arg = "btn_add" -> "selected"
            [] kind \in {"click", "key_release"} /\ arg = "btn_del"
                 /\ active_text_widget # None -> "deleted"
            [] kind = "press" /\ arg = "Left" -> "selected"
            [] kind = "key" /\ active_text_widget # None /\ Deselects(ev) -> "cleared"
            [] OTHER -> selection
    /\ buffer' =
          CASE kind \in {"click", "key_release"} /\ arg = "btn_add" ->
                 [i \in DOMAIN buffer \cup {next_id + 1} |->
                    IF i = next_id + 1 THEN [text |-> <<>>, edited |-> FALSE] ELSE buffer[i]]
            [] kind \in {"click", "key_release"} /\ arg = "btn_del" ->
                 [i \in DOMAIN buffer \ {active_text_widget} |-> buffer[i]]
            [] kind = "key" /\ w # None /\ IsEdit(ev) ->
                 [buffer EXCEPT ![w] = [text |-> RefEdit(@.text, ev), edited |-> TRUE]]
            [] OTHER -> buffer

\* A mouse click on the bar's button b
Click(b) ==
    /\ CanHandle /\ ~dialog
    /\ clicked(b)
    /\ Event("click", None, NoKey, b, FALSE)
    /\ UNCHANGED down_btn

\* The user moves the slider to v: valueChanged fires when the value changes
SliderMoved(v) ==
    /\ CanHandle /\ ~dialog
    /\ SliderValue(v) # slider_size
    /\ slider_size' = SliderValue(v)
    /\ widgets' = on_size_change(widgets, active_text_widget, SliderValue(v))
    /\ Event("slider", None, NoKey, v, FALSE)
    /\ UNCHANGED <<text_widgets, active_text_widget, btn_shadow, down_btn, dialog,
                   crashed, next_id>>

\* FloatingText.mousePressEvent on overlay w
mousePressEvent(w, button, p) ==
    /\ CanHandle /\ ~dialog
    /\ w \in DOMAIN widgets
    /\ IF button = "Left"
       THEN LET st == set_active_widget(widgets, text_widgets, w)
            IN  Becomes([st EXCEPT !.widgets[w]._dragging = TRUE,
                                   !.widgets[w]._drag_offset = p])
       ELSE Becomes(Bar)
    /\ Event("press", w, NoKey, button, FALSE)
    /\ UNCHANGED <<text_widgets, down_btn, dialog, crashed, next_id>>

\* FloatingText.mouseMoveEvent on overlay w with the pointer at g
mouseMoveEvent(w, g) ==
    /\ CanHandle /\ ~dialog
    /\ w \in DOMAIN widgets
    /\ widgets' = IF widgets[w]._dragging
                  THEN [widgets EXCEPT ![w].pos = Sub(g, widgets[w]._drag_offset)]
                  ELSE widgets
    /\ Event("move", w, NoKey, NoButton, FALSE)
    /\ UNCHANGED <<text_widgets, active_text_widget, slider_size, btn_shadow, down_btn,
                   dialog, crashed, next_id>>

\* FloatingText.mouseReleaseEvent on overlay w
mouseReleaseEvent(w) ==
    /\ CanHandle /\ ~dialog
    /\ w \in DOMAIN widgets
    /\ widgets' = [widgets EXCEPT ![w]._dragging = FALSE]
    /\ Event("release", w, NoKey, NoButton, FALSE)
    /\ UNCHANGED <<text_widgets, active_text_widget, slider_size, btn_shadow, down_btn,
                   dialog, crashed, next_id>>

\* cursor_timer times out on overlay w
Blink(w) ==
    /\ CanHandle
    /\ w \in DOMAIN widgets
    /\ widgets' = [widgets EXCEPT ![w] = blink_cursor(@)]
    /\ Event("blink", w, NoKey, NoButton, FALSE)
    /\ UNCHANGED <<text_widgets, active_text_widget, slider_size, btn_shadow, down_btn,
                   dialog, crashed, next_id>>

\* Mutant: a key press is consumed whether or not an overlay is active
notify_consume_all(receiver, ev) ==
    /\ CanHandle
    /\ dialog => receiver \notin Buttons
    /\ IF active_text_widget # None
       THEN /\ Becomes(key_press(active_text_widget, ev))
            /\ IF receiver \in Buttons
               THEN /\ down_btn' = button_down(receiver, ev)
                    /\ Event("key", active_text_widget, ev, receiver, TRUE)
               ELSE /\ UNCHANGED down_btn
                    /\ Event("key", active_text_widget, ev, receiver, FALSE)
       ELSE /\ Becomes(Bar)
            /\ UNCHANGED down_btn
            /\ Event("key", None, ev, receiver, FALSE)
    /\ UNCHANGED <<text_widgets, dialog, crashed, next_id>>

\* Mutant: the active reference is looked at again after the key was
\* handled, so the key press that clears it falls through to normal dispatch
notify_recheck(receiver, ev) ==
    /\ CanHandle
    /\ dialog => receiver \notin Buttons
    /\ IF active_text_widget # None
       THEN /\ Becomes(key_press(active_text_widget, ev))
            /\ IF receiver \in Buttons
               THEN /\ down_btn' = button_down(receiver, ev)
                    /\ Event("key", active_text_widget, ev, receiver, TRUE)
               ELSE /\ UNCHANGED down_btn
                    /\ Event("key", active_text_widget, ev, receiver, Deselects(ev))
       ELSE /\ Becomes(Bar)
            /\ down_btn' = button_down(receiver, ev)
            /\ Event("key", None, ev, receiver, TRUE)
    /\ UNCHANGED <<text_widgets, dialog, crashed, next_id>>

\* MyApplication.notify(receiver, event) for a KeyPress event.  While the
\* colour dialog is open it is modal, so no button of the bar receives keys;
\* the router itself still sees every key press.
notify(receiver, ev) ==
    /\ CanHandle
    /\ dialog => receiver \notin Buttons
    /\ IF active_text_widget # None
       THEN /\ Becomes(key_press(active_text_widget, ev))
            /\ IF receiver \in Buttons
               THEN /\ down_btn' = button_down(receiver, ev)
                    /\ Event("key", active_text_widget, ev, receiver, TRUE)
               ELSE /\ UNCHANGED down_btn
                    /\ Event("key", active_text_widget, ev, receiver, FALSE)
       ELSE /\ Becomes(Bar)
            /\ down_btn' = button_down(receiver, ev)
            /\ Event("key", None, ev, receiver, TRUE)
    /\ UNCHANGED <<text_widgets, dialog, crashed, next_id>>

\* The space bar is released on the button it holds down: notify passes the
\* KeyRelease event on and the button emits clicked.
KeyRelease ==
    /\ CanHandle /\ ~dialog
    /\ down_btn # NoButton
    /\ clicked(down_btn)
    /\ down_btn' = NoButton
    /\ Event("key_release", None, NoKey, down_btn, TRUE)

\* QColorDialog.getColor returns col
DialogReturns(col) ==
    /\ CanHandle /\ dialog
    /\ color_chosen(col)
    /\ Event("color", active_text_widget, NoKey, col, FALSE)
    /\ UNCHANGED down_btn

----------------------------------------------------------------------------
(* Specification *)

Receivers == Buttons \cup {"other"}

\* ControlBar.__init__ and init_ui
Init ==
    /\ widgets = << >>
    /\ text_widgets = << >>
    /\ active_text_widget = None
    /\ slider_size = SliderValue(SliderInit)
    /\ btn_shadow = TRUE
    /\ down_btn = NoButton
    /\ dialog = FALSE
    /\ crashed = FALSE
    /\ next_id = 0
    /\ events = 0
    /\ last = [kind |-> "init", w |-> None, ev |-> NoKey, arg |-> NoButton, passed |-> FALSE]
    /\ selection = "none"
    /\ buffer = << >>

Next ==
    \/ \E b \in Buttons : Click(b)
    \/ \E v \in SliderRequests : SliderMoved(v)
    \/ \E w \in DOMAIN widgets, b \in MouseButtons, p \in PressPoints : mousePressEvent(w, b, p)
    \/ \E w \in DOMAIN widgets, g \in GlobalPoints : mouseMoveEvent(w, g)
    \/ \E w \in DOMAIN widgets : mouseReleaseEvent(w)
    \/ \E w \in DOMAIN widgets : Blink(w)
    \/ \E receiver \in Receivers, ev \in KeyEvents : notify(receiver, ev)
    \/ KeyRelease
    \/ \E col \in DialogColors : DialogReturns(col)

Spec == Init /\ [][Next]_vars

----------------------------------------------------------------------------
(* Properties *)

Overlays == DOMAIN widgets
Selected == {w \in Overlays : widgets[w].is_selected}
Content(w) == widgets[w].text_content

KeyPressed == last.kind = "key"
\* The key router handled the step's key press for an active overlay
Routed == last'.kind = "key" /\ active_text_widget # None
\* The step created an overlay (the add button, by mouse or by the space bar)
Created == last'.kind \in {"click", "key_release"} /\ last'.arg = "btn_add"
\* The step was a left press on an overlay
Pressed == last'.kind = "press" /\ last'.arg = "Left"
\* A key that reaches the printable-text branch
Printable(ev) ==
    /\ ev.key \notin {"Up", "Down", "Left", "Right", "Escape", "Backspace", "Return", "Enter"}
    /\ ev.text # "" /\ IsPrintable(ev.text)

\* C1: at most one overlay is selected, and a non-null active reference is
\* that selected overlay, a member of the collection.
C1_OneSelection ==
    /\ Cardinality(Selected) <= 1
    /\ active_text_widget # None =>
          /\ active_text_widget \in Range(text_widgets)
          /\ Selected = {active_text_widget}

\* Two overlays exist and a click has made the older one the active one.
C1_Witness ==
    /\ last.kind = "press" /\ last.arg = "Left"
    /\ Len(text_widgets) = 2
    /\ active_text_widget = text_widgets[1]
    /\ Selected = {text_widgets[1]}

\* C2 as stated: the active reference is null exactly when the collection is
\* empty or the most recent selection was cleared by Escape or Enter.
C2_NullIffEmptyOrCleared ==
    (active_text_widget = None) <=> (text_widgets = <<>> \/ selection = "cleared")

\* C2 as amended: the active reference is null exactly when the collection is
\* empty, or the most recent selection was cleared by Escape or Enter, or the
\* overlay most recently selected has been deleted.
C2_NullIffEmptyClearedOrDeleted ==
    (active_text_widget = None) <=>
        (text_widgets = <<>> \/ selection \in {"cleared", "deleted"})

\* The active overlay was deleted while another overlay remains.
C2_Witness ==
    /\ selection = "deleted"
    /\ text_widgets # <<>>
    /\ active_text_widget = None

\* C3: a printable key without Control sets placeholder content to the typed
\* character alone, and appends the character to any other content.
C3_Typing ==
    [][(Routed /\ Printable(last'.ev) /\ ~last'.ev.ctrl) =>
          widgets'[active_text_widget].text_content =
             IF Content(active_text_widget) = Placeholder
             THEN <<last'.ev.text>>
             ELSE Content(active_text_widget) \o <<last'.ev.text>>]_vars

\* "A" was typed into a fresh overlay and then once more.
C3_Witness ==
    /\ KeyPressed /\ last.ev = Key("A", "A", FALSE, FALSE)
    /\ events = 3
    /\ active_text_widget # None
    /\ Content(active_text_widget) = <<"A", "A">>

\* C4: Backspace empties empty or placeholder content, otherwise drops exactly
\* the last character; it raises nothing and keeps the active overlay.
C4_Backspace ==
    [][(Routed /\ last'.ev.key = "Backspace") =>
          LET old == Content(active_text_widget)
              new == widgets'[active_text_widget].text_content
          IN  /\ old \in {<<>>, Placeholder} => new = <<>>
              /\ old \notin {<<>>, Placeholder} =>
                    /\ Len(new) = Len(old) - 1
                    /\ \A i \in 1..Len(new) : new[i] = old[i]
              /\ ~crashed'
              /\ active_text_widget' = active_text_widget]_vars

\* Backspace has removed the second of two typed characters.
C4_Witness ==
    /\ KeyPressed /\ last.ev.key = "Backspace"
    /\ events = 4
    /\ active_text_widget # None
    /\ Content(active_text_widget) = <<"A">>

\* C5: every overlay's font size lies in [10, 200].
C5_FontSizeRange ==
    \A w \in Overlays : widgets[w]._font_size \in SliderMin..SliderMax

\* The slider was dragged past its upper end while an overlay was active.
C5_Witness ==
    /\ last.kind = "slider" /\ last.arg > SliderMax
    /\ active_text_widget # None
    /\ widgets[active_text_widget]._font_size = SliderMax

\* C6: Escape, or Return/Enter without Shift, clears the active reference,
\* leaves no overlay selected and leaves every overlay's content unchanged.
C6_Deselect ==
    [][(Routed /\ Deselects(last'.ev)) =>
          /\ active_text_widget' = None
          /\ \A w \in DOMAIN widgets' : ~widgets'[w].is_selected
          /\ DOMAIN widgets' = Overlays
          /\ \A w \in Overlays : widgets'[w].text_content = Content(w)]_vars

\* Plain Return ended the editing of an overlay holding typed text.
C6_Witness ==
    /\ KeyPressed /\ last.ev = Key("Return", "\r", FALSE, FALSE)
    /\ active_text_widget = None
    /\ Selected = {}
    /\ last.w # None
    /\ Content(last.w) = <<"A">>

\* C7: Shift+Return/Enter appends exactly one line break to the active
\* overlay's content and keeps that overlay active and selected.
C7_ShiftEnter ==
    [][(Routed /\ last'.ev.key \in {"Return", "Enter"} /\ last'.ev.shift) =>
          /\ widgets'[active_text_widget].text_content =
                Content(active_text_widget) \o <<"\n">>
          /\ active_text_widget' = active_text_widget
          /\ widgets'[active_text_widget].is_selected]_vars

\* Shift+Return after typing one character.
C7_Witness ==
    /\ KeyPressed /\ last.ev = Key("Return", "\r", TRUE, FALSE)
    /\ active_text_widget # None
    /\ widgets[active_text_widget].is_selected
    /\ Content(active_text_widget) = <<"A", "\n">>

\* C8: a left press on overlay X makes X the active, selected overlay,
\* deselects every other overlay and shows X's font size and shadow flag on
\* the slider and the toggle.
C8_Click ==
    [][Pressed =>
          LET X == last'.w
          IN  /\ active_text_widget' = X
              /\ widgets'[X].is_selected
              /\ \A w \in DOMAIN widgets' \ {X} : ~widgets'[w].is_selected
              /\ slider_size' = widgets[X]._font_size
              /\ slider_size' = widgets'[X]._font_size
              /\ btn_shadow' = widgets[X]._shadow_enabled
              /\ btn_shadow' = widgets'[X]._shadow_enabled]_vars

\* Of two overlays the newer was resized, then the older was clicked: the
\* slider is back at the older one's size.
C8_Witness ==
    /\ last.kind = "press" /\ last.arg = "Left"
    /\ active_text_widget = last.w
    /\ slider_size = widgets[last.w]._font_size
    /\ \E w \in Overlays : widgets[w]._font_size # slider_size

\* C9: selecting an overlay, by a click or by creating it, changes no
\* overlay's font size and no overlay's shadow flag.
C9_SelectKeepsStyle ==
    [][(Pressed \/ Created) =>
          \A w \in Overlays :
             /\ w \in DOMAIN widgets'
             /\ widgets'[w]._font_size = widgets[w]._font_size
             /\ widgets'[w]._shadow_enabled = widgets[w]._shadow_enabled]_vars

\* A click moved the toggle to the clicked overlay's flag while another
\* overlay keeps the opposite flag.
C9_Witness ==
    /\ last.kind = "press" /\ last.arg = "Left"
    /\ btn_shadow = widgets[last.w]._shadow_enabled
    /\ \E w \in Overlays : widgets[w]._shadow_enabled # btn_shadow

\* The overlay fields other than the one named by a style change.
Except(r, field) ==
    CASE field = "_font_size" -> [r EXCEPT !._font_size = 0, !.label = <<>>]
      [] field = "_shadow_enabled" -> [r EXCEPT !._shadow_enabled = FALSE, !.label = <<>>]
      [] field = "_color" -> [r EXCEPT !._color = "", !.label = <<>>]

\* Only `field` of the active overlay may differ after the step.
OnlyActive(field) ==
    /\ DOMAIN widgets' = Overlays
    /\ \A w \in Overlays :
          IF w = active_text_widget
          THEN Except(widgets'[w], field) = Except(widgets[w], field)
          ELSE widgets'[w] = widgets[w]

ShadowToggled == last'.kind \in {"click", "key_release"} /\ last'.arg = "btn_shadow"

\* C10: a size change, a shadow toggle and a confirmed colour pick set that
\* property of the active overlay and change nothing else of any overlay;
\* with no overlay active they change no overlay.
C10_StyleFrame ==
    [][/\ last'.kind = "slider" =>
            /\ OnlyActive("_font_size")
            /\ active_text_widget # None =>
                  widgets'[active_text_widget]._font_size = slider_size'
       /\ ShadowToggled =>
            /\ OnlyActive("_shadow_enabled")
            /\ active_text_widget # None =>
                  widgets'[active_text_widget]._shadow_enabled = btn_shadow'
       /\ (last'.kind \in {"click", "key_release"} /\ last'.arg = "btn_color") =>
            widgets' = widgets
       /\ (last'.kind = "color" /\ last'.arg # InvalidColor) =>
            /\ OnlyActive("_color")
            /\ active_text_widget # None =>
                  widgets'[active_text_widget]._color = last'.arg]_vars

\* The slider resized the active one of two overlays and not the other.
C10_Witness ==
    /\ last.kind = "slider"
    /\ Len(text_widgets) = 2
    /\ active_text_widget # None
    /\ widgets[active_text_widget]._font_size = slider_size
    /\ \E w \in Overlays : widgets[w]._font_size # slider_size

\* C11: when the colour dialog is cancelled, its return changes nothing: every
\* overlay, the collection, the active reference, the slider and the toggle
\* are as before, and nothing is raised.
C11_CancelKeepsState ==
    [][(last'.kind = "color" /\ last'.arg = InvalidColor) =>
          /\ widgets' = widgets
          /\ text_widgets' = text_widgets
          /\ active_text_widget' = active_text_widget
          /\ slider_size' = slider_size
          /\ btn_shadow' = btn_shadow
          /\ ~crashed']_vars

\* The dialog was opened for an active overlay and cancelled.
C11_Witness ==
    /\ last.kind = "color" /\ last.arg = InvalidColor
    /\ active_text_widget # None
    /\ widgets[active_text_widget]._color = White
    /\ ~dialog

\* The step ran delete_current (the delete button, by mouse or by the space bar)
Deleted == last'.kind \in {"click", "key_release"} /\ last'.arg = "btn_del"

\* C12: delete removes exactly the active overlay from the collection, nulls
\* the active reference and leaves every other overlay, and their order, as
\* they were; with no active overlay it changes nothing.
C12_Delete ==
    [][Deleted =>
          IF active_text_widget # None
          THEN /\ text_widgets' =
                     SelectSeq(text_widgets, LAMBDA x : x # active_text_widget)
               /\ Len(text_widgets') = Len(text_widgets) - 1
               /\ active_text_widget' = None
               /\ DOMAIN widgets' = Overlays \ {active_text_widget}
               /\ \A w \in DOMAIN widgets' : widgets'[w] = widgets[w]
               /\ \A w \in DOMAIN widgets' : ~widgets'[w].is_selected
          ELSE /\ text_widgets' = text_widgets
               /\ widgets' = widgets
               /\ active_text_widget' = None]_vars

\* Of two overlays the older one was clicked and deleted; the newer remains.
C12_Witness ==
    /\ last.kind = "click" /\ last.arg = "btn_del"
    /\ selection = "deleted"
    /\ next_id = 2
    /\ text_widgets = <<2>>
    /\ active_text_widget = None

\* C13: with no overlay active, a key press is passed on to normal dispatch
\* and changes no overlay, nor the collection, nor the active reference.
C13_PassThrough ==
    [][(last'.kind = "key" /\ active_text_widget = None) =>
          /\ last'.passed
          /\ widgets' = widgets
          /\ text_widgets' = text_widgets
          /\ active_text_widget' = None]_vars

\* A character key arrived after Escape had cleared the selection: the
\* overlay still shows its placeholder.
C13_Witness ==
    /\ KeyPressed /\ last.ev = Key("A", "A", FALSE, FALSE)
    /\ last.w = None /\ last.passed
    /\ selection = "cleared"
    /\ text_widgets # <<>>
    /\ \A w \in Overlays : Content(w) = Placeholder

C15_ClickShowsCursor ==
    [][(Pressed /\ ~widgets[last'.w].is_selected) =>
          /\ widgets'[last'.w].is_selected
          /\ widgets'[last'.w].show_cursor]_vars

\* C16: create appends one new overlay with content "Type...", size 42,
\* colour white and shadow on at the end of the collection, makes it the
\* only selected and the active overlay, and leaves the content, style and
\* position of every other overlay unchanged.
C16_Create ==
    [][Created =>
          /\ Len(text_widgets') = Len(text_widgets) + 1
          /\ SubSeq(text_widgets', 1, Len(text_widgets)) = text_widgets
          /\ LET new == text_widgets'[Len(text_widgets')]
             IN  /\ new \notin Overlays
                 /\ DOMAIN widgets' = Overlays \cup {new}
                 /\ widgets'[new].text_content = Placeholder
                 /\ widgets'[new]._font_size = DefaultFontSize
                 /\ widgets'[new]._color = White
                 /\ widgets'[new]._shadow_enabled = TRUE
                 /\ active_text_widget' = new
                 /\ \A w \in DOMAIN widgets' : widgets'[w].is_selected <=> w = new
          /\ \A w \in Overlays :
                /\ widgets'[w].text_content = widgets[w].text_content
                /\ widgets'[w]._font_size = widgets[w]._font_size
                /\ widgets'[w]._color = widgets[w]._color
                /\ widgets'[w]._shadow_enabled = widgets[w]._shadow_enabled
                /\ widgets'[w].pos = widgets[w].pos]_vars

\* A second overlay was created while the first, holding typed text, was
\* active: the new one is last and active, the first one keeps its text.
C16_Witness ==
    /\ last.kind = "click" /\ last.arg = "btn_add"
    /\ Len(text_widgets) = 2
    /\ active_text_widget = text_widgets[2]
    /\ Content(text_widgets[2]) = Placeholder
    /\ Content(text_widgets[1]) = <<"A">>
    /\ ~widgets[text_widgets[1]].is_selected

\* The label of overlay r ends with the cursor suffix
CursorRendered(r) ==
    /\ r.label.display_text # <<>>
    /\ r.label.display_text[Len(r.label.display_text)] = "|"

\* C17: a timer tick flips the cursor flag of a selected overlay and leaves an
\* unselected overlay's flag alone, and after every step the suffix "|" is
\* rendered exactly for the overlays that are selected with the flag set.
C17_Blink ==
    [][/\ \A w \in DOMAIN widgets' :
             CursorRendered(widgets'[w]) <=>
                (widgets'[w].is_selected /\ widgets'[w].show_cursor)
       /\ last'.kind = "blink" =>
             /\ DOMAIN widgets' = Overlays
             /\ \A w \in Overlays :
                   /\ widgets'[w].is_selected = widgets[w].is_selected
                   /\ widgets'[w].show_cursor =
                         IF w = last'.w /\ widgets[w].is_selected
                         THEN ~widgets[w].show_cursor
                         ELSE widgets[w].show_cursor]_vars

\* Two ticks on a selected overlay: the cursor was hidden and is shown again.
C17_Witness ==
    /\ last.kind = "blink"
    /\ events = 3
    /\ Overlays = {last.w}
    /\ widgets[last.w].is_selected /\ widgets[last.w].show_cursor
    /\ CursorRendered(widgets[last.w])

\* C18: a key press that the router handles for the active overlay is not
\* acted on by a push button as well: it presses no button down.
C18_TypingPressesNoButton ==
    [][Routed => down_btn' = down_btn]_vars

\* C19: every overlay's content equals its reference buffer, to which the same
\* edits were applied from the empty text, except that before the first edit
\* the empty buffer is shown as the placeholder.
C19_ContentIsBuffer ==
    \A w \in Overlays :
       \/ Content(w) = buffer[w].text
       \/ ~buffer[w].edited /\ buffer[w].text = <<>> /\ Content(w) = Placeholder

\* The move an arrow key asks for, in pixels
Nudge(key) ==
    CASE key = "Up" -> <<0, -2>>
      [] key = "Down" -> <<0, 2>>
      [] key = "Left" -> <<-2, 0>>
      [] key = "Right" -> <<2, 0>>

\* C20: a routed key press leaves the content, position, font size, colour
\* and shadow flag of every overlay but the active one unchanged, and an
\* arrow key moves the active overlay by exactly 2 pixels in its direction
\* and changes nothing else of it, nor which overlay is active.
C20_KeyFrame ==
    [][Routed =>
          /\ DOMAIN widgets' = Overlays
          /\ \A w \in Overlays \ {active_text_widget} :
                /\ widgets'[w].text_content = widgets[w].text_content
                /\ widgets'[w].pos = widgets[w].pos
                /\ widgets'[w]._font_size = widgets[w]._font_size
                /\ widgets'[w]._color = widgets[w]._color
                /\ widgets'[w]._shadow_enabled = widgets[w]._shadow_enabled
          /\ last'.ev.key \in {"Up", "Down", "Left", "Right"} =>
                /\ active_text_widget' = active_text_widget
                /\ widgets'[active_text_widget] =
                      [widgets[active_text_widget] EXCEPT
                          !.pos = <<@[1] + Nudge(last'.ev.key)[1],
                                    @[2] + Nudge(last'.ev.key)[2]>>]]_vars

\* Up moved the active one of two overlays; the other is where it was created.
C20_Witness ==
    /\ KeyPressed /\ last.ev.key = "Up"
    /\ Len(text_widgets) = 2
    /\ active_text_widget # None
    /\ widgets[active_text_widget].pos = <<120, 177>>
    /\ widgets[active_text_widget].is_selected
    /\ \E w \in Overlays : w # active_text_widget /\ widgets[w].pos = StartPos

====
